---------------------------- MODULE Spec2Model ----------------------------
(***************************************************************************)
(* Model of ris.clickatellhttp (src/ris/clickatellhttp/http.py): the       *)
(* ClickatellClient of the Clickatell HTTP API v2.5.3.                     *)
(*                                                                         *)
(* Python strings are TLA+ strings; Len, SubSeq and \o act on them as on   *)
(* sequences of characters.  Python's None and "a value" are <<>> and      *)
(* <<v>>.  The transport (urllib2.urlopen) is the environment: every       *)
(* request is answered by a body drawn from a small set.                   *)
(***************************************************************************)
EXTENDS Integers, Sequences, FiniteSets, TLC

(***************************************************************************)
(* Bounds of the model                                                     *)
(***************************************************************************)
\* longest recipient list passed to send
MaxRecipients == 201

(***************************************************************************)
(* Python built-ins used by the client                                     *)
(***************************************************************************)
None == <<>>

Some(v) == <<v>>

Min(a, b) == IF a <= b THEN a ELSE b

\* s[a:b] with 0 <= a, 0 <= b (Python clamps both ends to len(s))
Slice(s, a, b) ==
    IF a >= Min(b, Len(s)) THEN "" ELSE SubSeq(s, a + 1, Min(b, Len(s)))

\* s[a:]
SliceFrom(s, a) == Slice(s, a, Len(s))

\* s.startswith(p)
StartsWith(s, p) == Len(s) >= Len(p) /\ SubSeq(s, 1, Len(p)) = p

\* s.find(sub): the lowest 0-based index of sub in s, or -1
Find(s, sub) ==
    LET hits == {k \in 0..(Len(s) - Len(sub)) : Slice(s, k, k + Len(sub)) = sub}
    IN  IF hits = {} THEN -1
        ELSE CHOOSE k \in hits : \A h \in hits : k <= h

\* s.split('\n'): always at least one element, '' splits to ['']
RECURSIVE SplitFrom(_, _, _)
SplitFrom(s, k, cur) ==
    IF k > Len(s) THEN <<cur>>
    ELSE IF SubSeq(s, k, k) = "\n"
         THEN <<cur>> \o SplitFrom(s, k + 1, "")
         ELSE SplitFrom(s, k + 1, cur \o SubSeq(s, k, k))

Split(s) == SplitFrom(s, 1, "")

\* sep.join(parts), joined half by half to keep the recursion shallow
RECURSIVE Join(_, _)
Join(sep, parts) ==
    IF parts = <<>> THEN ""
    ELSE IF Len(parts) = 1 THEN parts[1]
    ELSE LET half == Len(parts) \div 2
         IN  Join(sep, SubSeq(parts, 1, half)) \o sep
                 \o Join(sep, SubSeq(parts, half + 1, Len(parts)))

IsCharOf(alphabet, c) == \E k \in 1..Len(alphabet) : SubSeq(alphabet, k, k) = c

\* re.findall('([<alphabet>]+)', s): the maximal runs of characters of the
\* alphabet, left to right
RECURSIVE FindAllFrom(_, _, _, _)
FindAllFrom(alphabet, s, k, cur) ==
    IF k > Len(s) THEN (IF cur = "" THEN <<>> ELSE <<cur>>)
    ELSE IF IsCharOf(alphabet, SubSeq(s, k, k))
         THEN FindAllFrom(alphabet, s, k + 1, cur \o SubSeq(s, k, k))
         ELSE (IF cur = "" THEN <<>> ELSE <<cur>>)
              \o FindAllFrom(alphabet, s, k + 1, "")

FindAll(alphabet, s) == FindAllFrom(alphabet, s, 1, "")

\* urllib.quote(s): letters, digits and "_.-/" are kept, every other
\* character becomes %XX (the characters the messages of the model use)
QuoteChar(c) ==
    IF IsCharOf("abcdefghijklmnopqrstuvwxyzABCDEFGHIJKLMNOPQRSTUVWXYZ0123456789_.-/", c)
    THEN c
    ELSE CASE c = " " -> "%20"
           [] c = "&" -> "%26"
           [] c = "?" -> "%3F"
           [] c = "\n" -> "%0A"
           [] OTHER -> "%25"

RECURSIVE Quote(_)
Quote(s) == IF s = "" THEN "" ELSE QuoteChar(SubSeq(s, 1, 1)) \o Quote(SliceFrom(s, 1))

(***************************************************************************)
(* Module constants of http.py                                             *)
(***************************************************************************)
MAX_RECIPIENTS == 100

CLICKATELL_ERROR_CODES ==
    ("001" :> "Authentication Failed") @@
    ("002" :> "Unknown Username or Password") @@
    ("003" :> "Session ID Expired") @@
    ("005" :> "Missing Session ID") @@
    ("007" :> "IP Lockdown Violation") @@
    ("101" :> "Invalid or Missing Parameters") @@
    ("102" :> "Invalid User Data Header") @@
    ("103" :> "Unknown API Message ID") @@
    ("104" :> "Unknown Client Message ID") @@
    ("105" :> "Invalid Destination Address") @@
    ("106" :> "Invalid Source Address") @@
    ("107" :> "Empty Message") @@
    ("108" :> "Invalid or Missing API ID") @@
    ("109" :> "Missing Message ID") @@
    ("113" :> "Maximum Message Parts Exceeded") @@
    ("114" :> "Cannot Route Message") @@
    ("115" :> "Message Expired") @@
    ("116" :> "Invalid Unicode Data") @@
    ("120" :> "Invalid Delivery Time") @@
    ("121" :> "Destination Mobile Number Blocked") @@
    ("122" :> "Destination Mobile Opted Out") @@
    ("123" :> "Invalid Sender ID") @@
    ("128" :> "Number Delisted") @@
    ("130" :> "Maximum MT limit Exceeded Until <UNIX TIME STAMP>") @@
    ("201" :> "Invalid Batch ID") @@
    ("202" :> "No Batch Template") @@
    ("301" :> "No Credit Left") @@
    ("901" :> "Internal Error")

\* re.compile('([0-9a-f]+)') and re.compile('([0-9]+)') of __init__
INT_HEX_RE == "0123456789abcdef"

INT_RE == "0123456789"

(***************************************************************************)
(* Exceptions: [type, arg].  The client raises the generic Exception with  *)
(* a message, ClickatellException with a code; the interpreter raises      *)
(* IndexError and KeyError.                                                *)
(***************************************************************************)
Exc(type, arg) == [type |-> type, arg |-> arg]

ClickatellException(code) == Exc("ClickatellException", code)

ConnectFailure == Exc("Exception", "Failed to connect to API server")

EmptyArguments == Exc("Exception", "Empty message or recipient. Message cannot be sent")

EmptyResponse == Exc("Exception", "Empty response received from Clickatell server")

IndexError == Exc("IndexError", "list index out of range")

KeyError(key) == Exc("KeyError", key)

\* the outcome of a call: a returned value or a raised exception
Return(v) == [result |-> Some(v), raised |-> None]

ReturnNone == [result |-> None, raised |-> None]

Raise(e) == [result |-> None, raised |-> Some(e)]

(***************************************************************************)
(* Inputs of the model                                                     *)
(***************************************************************************)
ApiIds == {"3404"}

Usernames == {"rwizi"}

Passwords == {"s3cret"}

\* bodies the transport may return to the auth request
LoginBodies ==
    { "OK: 8a1f", "OK: ", "OK", "OKAY",
      "ERR: 001, Authentication Failed", "ERR: 999, Closed", "ERR",
      "", "Service Unavailable" }

Messages == {"", "hi there"}

DigitOf(d) == SubSeq("0123456789", d + 1, d + 1)

RECURSIVE Digits(_)
Digits(n) == IF n < 10 THEN DigitOf(n) ELSE Digits(n \div 10) \o DigitOf(n % 10)

\* the list of the n destination numbers "1", "2", ..., "n"
RecipientList(n) == [k \in 1..n |-> Digits(k)]

\* list lengths around every multiple of the batch size
RecipientCounts ==
    {n \in 0..MaxRecipients :
        n % MAX_RECIPIENTS <= 2 \/ n % MAX_RECIPIENTS >= MAX_RECIPIENTS - 2}

RecipientLists == {RecipientList(n) : n \in RecipientCounts}

\* bodies the transport may return to a sendmsg request
SendBodies ==
    { "",
      "ID: 1a2b",
      "ID: 1a2b\n",
      "ID: 1a2b To: 2637",
      "ID: 1a2b To: 2637\n",
      "ID: 1a2b To: 1\nERR: 105, Invalid Destination Address, To: 2",
      "ERR: 105, Invalid Destination Address",
      "ERR: 105, Invalid Destination Address, To: 2637",
      "ERR: 999, Unlisted",
      "ID",
      "Bad Gateway" }

MessageIds == {"1a2b"}

\* bodies the transport may return to a querymsg request
StatusBodies ==
    { "ID: 1a2b Status: 008",
      "ID: 1a2b Status: ",
      "ID: 1a2b",
      "ID",
      "ERR: 103, Unknown API Message ID",
      "Status: 008",
      "" }

(***************************************************************************)
(* ClickatellClient.__fetch_url_response                                   *)
(***************************************************************************)
\* urllib2.urlopen(url).read() returns a body or raises URLError
URLError == <<>>

Transport(bodies) == {Some(body) : body \in bodies} \cup {URLError}

\* the body, or '' when URLError was raised
FetchUrlResponse(outcome) == IF outcome = URLError THEN "" ELSE outcome[1]

(***************************************************************************)
(* State                                                                   *)
(***************************************************************************)
VARIABLES
    pc,             \* "new", "idle", "send_loop", "done"
    api_id, username, password, protocol, session_id,   \* the client's fields
    op,             \* the operation in progress or just finished
    message, recipients, message_id,                    \* its arguments
    i,              \* send: start of the batch to send next
    raw_responses,  \* send: the response lines gathered so far
    requests,       \* the URLs the operation has fetched, in order
    responses,      \* the bodies the transport returned for them, in order
    result, raised  \* its outcome

fields == <<api_id, username, password, protocol, session_id>>

locals == <<message, recipients, message_id, i, raw_responses>>

vars == <<pc, fields, op, locals, requests, responses, result, raised>>

Init ==
    /\ pc = "new"
    /\ api_id = None /\ username = None /\ password = None
    /\ protocol = None /\ session_id = None
    /\ op = "none"
    /\ message = "" /\ recipients = <<>> /\ message_id = ""
    /\ i = 0 /\ raw_responses = <<>>
    /\ requests = <<>> /\ responses = <<>>
    /\ result = None /\ raised = None

(***************************************************************************)
(* ClickatellClient.__init__ and __login                                   *)
(***************************************************************************)
LoginUrl(proto, id, user, pass) ==
    proto \o "://api.clickatell.com/http/auth?api_id=" \o id
          \o "&user=" \o user \o "&password=" \o pass

\* Login with the error code read one character early, response[4:7]
Login_CodeOneEarly(response) ==
    IF StartsWith(response, "OK")
    THEN [session_id |-> Some(SliceFrom(response, 4)), raised |-> None]
    ELSE IF StartsWith(response, "ERR")
    THEN [session_id |-> None,
          raised |-> Some(ClickatellException(Slice(response, 4, 7)))]
    ELSE [session_id |-> None, raised |-> Some(ConnectFailure)]

\* what __login does with the response: the session id it sets, or the
\* exception it raises
Login(response) ==
    IF StartsWith(response, "OK")
    THEN [session_id |-> Some(SliceFrom(response, 4)), raised |-> None]
    ELSE IF StartsWith(response, "ERR")
    THEN [session_id |-> None,
          raised |-> Some(ClickatellException(Slice(response, 5, 8)))]
    ELSE [session_id |-> None, raised |-> Some(ConnectFailure)]

Construct(id, user, pass, secure) ==
    /\ pc = "new"
    /\ \E outcome \in Transport(LoginBodies) :
         LET proto    == IF secure THEN "https" ELSE "http"
             response == FetchUrlResponse(outcome)
             out      == Login(response)
         IN  /\ api_id' = Some(id)
             /\ username' = Some(user)
             /\ password' = Some(pass)
             /\ protocol' = Some(proto)
             /\ requests' = <<LoginUrl(proto, id, user, pass)>>
             /\ responses' = <<response>>
             /\ session_id' = out.session_id
             /\ raised' = out.raised
    /\ op' = "construct"
    /\ result' = None
    /\ pc' = "done"
    /\ UNCHANGED locals

(***************************************************************************)
(* ClickatellClient.send                                                   *)
(***************************************************************************)
SendUrl(proto, session, batch, text) ==
    proto \o "://api.clickatell.com/http/sendmsg?session_id=" \o session
          \o "&to=" \o batch \o "&text=" \o Quote(text)

\* Batch one recipient short, recipients[i:i + MAX_RECIPIENTS - 1]
Batch_OneShort(rcpts, start) ==
    SubSeq(rcpts, start + 1, Min(start + MAX_RECIPIENTS - 1, Len(rcpts)))

\* recipients[i:i + MAX_RECIPIENTS]
Batch(rcpts, start) == SubSeq(rcpts, start + 1, Min(start + MAX_RECIPIENTS, Len(rcpts)))

\* the sanity check with "and" for "or"
EmptyCall_BothEmpty(msg, rcpts) == msg = "" /\ rcpts = <<>>

\* the sanity check of send
EmptyCall(msg, rcpts) == msg = "" \/ rcpts = <<>>

\* the branch for one response line: it belongs to recipients[0]
ParseSingle(single_response, rcpts) ==
    IF StartsWith(single_response, "ID")
    THEN LET data == FindAll(INT_HEX_RE, single_response)
         IN  IF Len(data) < 1 THEN Raise(IndexError)
             ELSE Return([success |-> <<[id |-> data[1], recipient |-> rcpts[1]]>>,
                          error   |-> <<>>])
    ELSE IF single_response # ""
    THEN LET data == FindAll(INT_RE, single_response)
         IN  IF Len(data) < 1 THEN Raise(IndexError)
             ELSE IF data[1] \notin DOMAIN CLICKATELL_ERROR_CODES
             THEN Raise(KeyError(data[1]))
             ELSE Return([success |-> <<>>,
                          error   |-> <<[code |-> data[1], recipient |-> rcpts[1],
                                         description |-> CLICKATELL_ERROR_CODES[data[1]]]>>])
    ELSE Return([success |-> <<>>, error |-> <<>>])

\* the branch for several response lines: the loop over raw_responses from
\* line k on, with the lists built so far
RECURSIVE ParseMultiple(_, _, _, _)
ParseMultiple(raw, k, success, error) ==
    IF k > Len(raw) THEN Return([success |-> success, error |-> error])
    ELSE IF StartsWith(raw[k], "ID")
    THEN LET data == FindAll(INT_HEX_RE, raw[k])
         IN  IF Len(data) < 2 THEN Raise(IndexError)
             ELSE ParseMultiple(raw, k + 1,
                      Append(success, [id |-> data[1], recipient |-> data[2]]), error)
    ELSE IF raw[k] # ""
    THEN LET data == FindAll(INT_RE, raw[k])
         IN  IF Len(data) < 2 THEN Raise(IndexError)
             ELSE IF data[1] \notin DOMAIN CLICKATELL_ERROR_CODES
             THEN Raise(KeyError(data[1]))
             ELSE ParseMultiple(raw, k + 1, success,
                      Append(error, [code |-> data[1], recipient |-> data[2],
                                     description |-> CLICKATELL_ERROR_CODES[data[1]]]))
    ELSE ParseMultiple(raw, k + 1, success, error)

\* what send does with the lines it gathered
Reconcile(raw, rcpts) ==
    IF Len(raw) = 0 THEN Raise(EmptyResponse)
    ELSE IF Len(raw) = 1 THEN ParseSingle(raw[1], rcpts)
    ELSE ParseMultiple(raw, 1, <<>>, <<>>)

\* the call of send: the sanity check, then the loop starts at i = 0
Send(msg, rcpts) ==
    /\ pc = "idle"
    /\ op' = "send"
    /\ message' = msg
    /\ recipients' = rcpts
    /\ i' = 0
    /\ raw_responses' = <<>>
    /\ requests' = <<>>
    /\ responses' = <<>>
    /\ result' = None
    /\ IF EmptyCall(msg, rcpts)
       THEN pc' = "done" /\ raised' = Some(EmptyArguments)
       ELSE pc' = "send_loop" /\ raised' = None
    /\ UNCHANGED <<fields, message_id>>

\* one round of the loop: the batch at i is sent and the lines of the
\* response are gathered; after the last batch the lines are reconciled
SendBatch ==
    /\ pc = "send_loop"
    /\ \E outcome \in Transport(SendBodies) :
         LET response == FetchUrlResponse(outcome)
             raw      == raw_responses \o Split(response)
             next     == i + MAX_RECIPIENTS
             out      == Reconcile(raw, recipients)
         IN  /\ requests' = Append(requests,
                    SendUrl(protocol[1], session_id[1],
                            Join(",", Batch(recipients, i)), message))
             /\ responses' = Append(responses, response)
             /\ raw_responses' = raw
             /\ IF next < Len(recipients)
                THEN /\ i' = next
                     /\ pc' = "send_loop"
                     /\ UNCHANGED <<result, raised>>
                ELSE /\ i' = i
                     /\ pc' = "done"
                     /\ result' = out.result
                     /\ raised' = out.raised
    /\ UNCHANGED <<fields, op, message, recipients, message_id>>

(***************************************************************************)
(* ClickatellClient.status                                                 *)
(***************************************************************************)
StatusUrl(proto, session, id) ==
    proto \o "://api.clickatell.com/http/querymsg?session_id=" \o session
          \o "&apimsgid=" \o id

\* what status returns for a response
StatusOf(response) ==
    IF StartsWith(response, "ID")
    THEN Return(SliceFrom(response, Find(response, "Status: ") + 8))
    ELSE ReturnNone

Status(id) ==
    /\ pc = "idle"
    /\ \E outcome \in Transport(StatusBodies) :
         LET response == FetchUrlResponse(outcome)
         IN  /\ requests' = <<StatusUrl(protocol[1], session_id[1], id)>>
             /\ responses' = <<response>>
             /\ result' = StatusOf(response).result
             /\ raised' = StatusOf(response).raised
    /\ op' = "status"
    /\ message_id' = id
    /\ pc' = "done"
    /\ UNCHANGED <<fields, message, recipients, i, raw_responses>>

(***************************************************************************)
(* ClickatellException.__str__                                             *)
(***************************************************************************)
Str(code) ==
    IF code \notin DOMAIN CLICKATELL_ERROR_CODES THEN Raise(KeyError(code))
    ELSE Return(code \o ": " \o CLICKATELL_ERROR_CODES[code])

\* the caller renders the ClickatellException the constructor raised
StrException ==
    /\ pc = "done"
    /\ op = "construct"
    /\ raised # None
    /\ raised[1].type = "ClickatellException"
    /\ op' = "str"
    /\ result' = Str(raised[1].arg).result
    /\ raised' = Str(raised[1].arg).raised
    /\ UNCHANGED <<pc, fields, locals, requests, responses>>

(***************************************************************************)
(* The caller gets the outcome of a call on a live client and may call      *)
(* again                                                                    *)
(***************************************************************************)
Finish ==
    /\ pc = "done"
    /\ session_id # None
    /\ pc' = "idle"
    /\ op' = "none"
    /\ message' = "" /\ recipients' = <<>> /\ message_id' = ""
    /\ i' = 0 /\ raw_responses' = <<>>
    /\ requests' = <<>> /\ responses' = <<>>
    /\ result' = None /\ raised' = None
    /\ UNCHANGED fields

Next ==
    \/ \E id \in ApiIds, user \in Usernames, pass \in Passwords, secure \in BOOLEAN :
          Construct(id, user, pass, secure)
    \/ \E msg \in Messages, rcpts \in RecipientLists : Send(msg, rcpts)
    \/ SendBatch
    \/ \E id \in MessageIds : Status(id)
    \/ StrException
    \/ Finish

Spec == Init /\ [][Next]_vars

(***************************************************************************)
(* Properties                                                              *)
(***************************************************************************)
\* a client exists: the constructor returned
Constructed ==
    \/ pc \in {"idle", "send_loop"}
    \/ pc = "done" /\ op \in {"send", "status"}
    \/ pc = "done" /\ op = "construct" /\ raised = None

\* send has finished a call that passed the sanity check
SendFinished ==
    pc = "done" /\ op = "send" /\ message # "" /\ recipients # <<>>

\* C1: once the constructor has returned, the session token is a non-empty
\* string, and it stays one through every later send and status call.
C1_SessionTokenNonEmpty ==
    Constructed => session_id # None /\ session_id[1] # ""

\* C2: the login response alone decides the construction, and exactly one
\* login request is issued: a body starting with "OK" gives a client whose
\* session token is the body without its first 4 characters; a body starting
\* with "ERR" raises ClickatellException with the characters 5..7 of the body
\* as code; any other body (the empty one too) raises the generic connection
\* failure; and a client is in use only after a construction that returned.
C2_ConstructionOutcome ==
    /\ (pc = "done" /\ op = "construct") =>
          LET body == responses[1]
              n    == Len(body)
          IN  /\ Len(requests) = 1 /\ Len(responses) = 1
              /\ requests[1] = protocol[1] \o "://api.clickatell.com/http/auth?api_id="
                                  \o api_id[1] \o "&user=" \o username[1]
                                  \o "&password=" \o password[1]
              /\ CASE n >= 2 /\ SubSeq(body, 1, 2) = "OK" ->
                        /\ raised = None
                        /\ session_id = <<IF n > 4 THEN SubSeq(body, 5, n) ELSE "">>
                   [] n >= 3 /\ SubSeq(body, 1, 3) = "ERR" ->
                        /\ raised = <<[type |-> "ClickatellException",
                                       arg  |-> IF n > 5
                                                THEN SubSeq(body, 6, IF n < 8 THEN n ELSE 8)
                                                ELSE ""]>>
                        /\ session_id = None
                   [] OTHER ->
                        /\ raised = <<ConnectFailure>>
                        /\ session_id = None
    /\ (pc \in {"idle", "send_loop"} \/ op \in {"send", "status"}) => session_id # None

\* C2 witness: a login answered "ERR: 001, ..." has raised the exception
\* with code 001
C2_Witness ==
    /\ pc = "done" /\ op = "construct"
    /\ responses = <<"ERR: 001, Authentication Failed">>
    /\ raised = <<ClickatellException("001")>>

\* C3: a call of send with an empty message or an empty recipient list
\* raises the empty-arguments exception at once: no request is issued and
\* the fields of the client are unchanged.
C3_EmptyArgumentsRejected ==
    [][ (pc = "idle" /\ op' = "send" /\ (message' = "" \/ recipients' = <<>>))
          => /\ pc' = "done"
             /\ raised' = <<EmptyArguments>>
             /\ result' = None
             /\ requests' = <<>>
             /\ fields' = fields ]_vars

\* C3 witness: send was called with a message and no recipient and raised
C3_Witness ==
    /\ pc = "done" /\ op = "send"
    /\ message # "" /\ recipients = <<>>
    /\ raised = <<EmptyArguments>> /\ requests = <<>>

\* the URL of the k-th batch of 100 of the recipients
ExpectedSendUrl(k) ==
    LET n     == Len(recipients)
        first == 100 * (k - 1) + 1
        last  == IF 100 * k < n THEN 100 * k ELSE n
    IN  protocol[1] \o "://api.clickatell.com/http/sendmsg?session_id="
           \o session_id[1] \o "&to="
           \o Join(",", [j \in 1..(last - first + 1) |-> recipients[first + j - 1]])
           \o "&text=" \o Quote(message)

\* C4: for a non-empty message and n >= 1 recipients send issues exactly
\* ceil(n/100) requests, one after another, whatever the earlier responses
\* were; the k-th carries recipients 100(k-1)+1 .. min(100k, n) in order.
C4_Batching ==
    (op = "send" /\ message # "" /\ recipients # <<>>) =>
        LET n      == Len(recipients)
            chunks == (n + 99) \div 100
        IN  /\ Len(requests) <= chunks
            /\ Len(responses) = Len(requests)
            /\ \A k \in 1..Len(requests) : requests[k] = ExpectedSendUrl(k)
            /\ pc = "send_loop" => Len(requests) < chunks /\ i = 100 * Len(requests)
            /\ pc = "done" => Len(requests) = chunks

\* C4 witness: 201 recipients went out in 3 requests although the first
\* response was empty and the second an error line
C4_Witness ==
    /\ SendFinished
    /\ Len(recipients) = 201 /\ Len(requests) = 3
    /\ responses[1] = "" /\ StartsWith(responses[2], "ERR")

\* C5: when every batch of a send was answered by an empty body, send raises
\* the empty-response exception.
C5_EmptyResponseRaised ==
    (SendFinished /\ \A k \in 1..Len(responses) : responses[k] = "")
        => raised = <<EmptyResponse>>

\* C6: when exactly one response line was gathered, send returns; an ID line
\* gives one success {first hex token, recipients[0]} and no failure; another
\* non-empty line gives one failure {first decimal token, recipients[0],
\* description of the code} and no success; an empty line gives neither.
C6_SingleLine ==
    (SendFinished /\ Len(raw_responses) = 1) =>
        LET line == raw_responses[1]
            hex  == FindAll(INT_HEX_RE, line)
            dec  == FindAll(INT_RE, line)
        IN  /\ raised = None
            /\ result # None
            /\ IF StartsWith(line, "ID")
               THEN /\ Len(hex) >= 1
                    /\ result[1].success = <<[id |-> hex[1], recipient |-> recipients[1]]>>
                    /\ result[1].error = <<>>
               ELSE IF line # ""
               THEN /\ Len(dec) >= 1
                    /\ dec[1] \in DOMAIN CLICKATELL_ERROR_CODES
                    /\ result[1].success = <<>>
                    /\ result[1].error =
                          <<[code |-> dec[1], recipient |-> recipients[1],
                             description |-> CLICKATELL_ERROR_CODES[dec[1]]]>>
               ELSE result[1].success = <<>> /\ result[1].error = <<>>

IsIdLine(line) == StartsWith(line, "ID")

IsErrorLine(line) == ~StartsWith(line, "ID") /\ line # ""

\* C7: when several response lines were gathered, send returns; the
\* successes are the ID lines in order, each {first token, second token};
\* the failures are the other non-empty lines in order, each {first decimal
\* token, second decimal token, description of the code}.
C7_MultiLine ==
    (SendFinished /\ Len(raw_responses) > 1) =>
        LET ids  == SelectSeq(raw_responses, IsIdLine)
            errs == SelectSeq(raw_responses, IsErrorLine)
        IN  /\ raised = None
            /\ result # None
            /\ Len(result[1].success) = Len(ids)
            /\ Len(result[1].error) = Len(errs)
            /\ \A k \in 1..Len(ids) :
                 LET data == FindAll(INT_HEX_RE, ids[k])
                 IN  /\ Len(data) >= 2
                     /\ result[1].success[k] = [id |-> data[1], recipient |-> data[2]]
            /\ \A k \in 1..Len(errs) :
                 LET data == FindAll(INT_RE, errs[k])
                 IN  /\ Len(data) >= 2
                     /\ data[1] \in DOMAIN CLICKATELL_ERROR_CODES
                     /\ result[1].error[k] =
                           [code |-> data[1], recipient |-> data[2],
                            description |-> CLICKATELL_ERROR_CODES[data[1]]]

\* a line the gateway documents: empty, "ID: <id>" with or without
\* " To: <recipient>", or "ERR: <code>, ..." with a code of the table
GatewayLine(line) ==
    \/ line = ""
    \/ StartsWith(line, "ID: ") /\ Len(FindAll(INT_HEX_RE, line)) >= 1
    \/ /\ StartsWith(line, "ERR: ")
       /\ Len(FindAll(INT_RE, line)) >= 1
       /\ FindAll(INT_RE, line)[1] \in DOMAIN CLICKATELL_ERROR_CODES

\* C8: when every line of every response is a gateway line, send returns a
\* result or raises the empty-response exception, and nothing else.
C8_SendOutcomesClosed ==
    (SendFinished /\ \A k \in 1..Len(raw_responses) : GatewayLine(raw_responses[k]))
        => \/ raised = None /\ result # None
           \/ raised = <<EmptyResponse>>

\* C9: every code of the table has a non-empty description, and a code that
\* is not in the table never ends an operation in a KeyError.
C9_UnknownCodeDefined ==
    /\ \A code \in DOMAIN CLICKATELL_ERROR_CODES : CLICKATELL_ERROR_CODES[code] # ""
    /\ raised # None => raised[1].type # "KeyError"

\* C10: status issues one request and never raises; for a response starting
\* with "ID" it returns what follows the marker "Status: " in the response,
\* for any other response it returns nothing.
C10_StatusResult ==
    (pc = "done" /\ op = "status") =>
        LET response == responses[1]
        IN  /\ Len(requests) = 1
            /\ raised = None
            /\ IF StartsWith(response, "ID")
               THEN /\ result # None
                    /\ \E k \in 0..Len(response) :
                         /\ Slice(response, k, k + 8) = "Status: "
                         /\ result[1] = SliceFrom(response, k + 8)
               ELSE result = None

(***************************************************************************)
(* What the code does guarantee where C1, C6 and C7 fail                   *)
(***************************************************************************)
\* the session id is written by the constructor only
SessionIdWrittenOnce == [][pc # "new" => session_id' = session_id]_vars

\* a send that returns with one response line gathered has recorded it for
\* recipients[0]
SingleLineWhenReturned ==
    (SendFinished /\ Len(raw_responses) = 1 /\ raised = None) =>
        LET line == raw_responses[1]
        IN  /\ result # None
            /\ IF IsIdLine(line)
               THEN /\ result[1].success =
                          <<[id |-> FindAll(INT_HEX_RE, line)[1], recipient |-> recipients[1]]>>
                    /\ result[1].error = <<>>
               ELSE IF IsErrorLine(line)
               THEN /\ result[1].success = <<>>
                    /\ result[1].error =
                          <<[code |-> FindAll(INT_RE, line)[1], recipient |-> recipients[1],
                             description |->
                                 CLICKATELL_ERROR_CODES[FindAll(INT_RE, line)[1]]]>>
               ELSE result[1] = [success |-> <<>>, error |-> <<>>]

\* a send that returns with several response lines gathered has recorded
\* every ID line and every other non-empty line, in order
MultiLineWhenReturned ==
    (SendFinished /\ Len(raw_responses) > 1 /\ raised = None) =>
        LET ids  == SelectSeq(raw_responses, IsIdLine)
            errs == SelectSeq(raw_responses, IsErrorLine)
        IN  /\ result # None
            /\ result[1].success =
                  [k \in 1..Len(ids) |->
                      [id        |-> FindAll(INT_HEX_RE, ids[k])[1],
                       recipient |-> FindAll(INT_HEX_RE, ids[k])[2]]]
            /\ result[1].error =
                  [k \in 1..Len(errs) |->
                      [code        |-> FindAll(INT_RE, errs[k])[1],
                       recipient   |-> FindAll(INT_RE, errs[k])[2],
                       description |-> CLICKATELL_ERROR_CODES[FindAll(INT_RE, errs[k])[1]]]]

=============================================================================
